---- MODULE Spec2Model ----
(***************************************************************************)
(* EventDispatcher<T> of src/src/event/event_dispatcher.rs.                *)
(*                                                                         *)
(* Three parking_lot mutexes guard the live handler list (handlers), the   *)
(* deferred registrations (added_queue) and the deferred removals          *)
(* (removed_queue).  add_handler, remove_handler and dispatch try_lock the *)
(* handlers mutex; mutators that lose it push onto a queue, a dispatch     *)
(* that loses it returns.  A dispatch that wins it calls every handler and *)
(* then drains removed_queue and added_queue into the list.                *)
(*                                                                         *)
(* Threads run the three operations concurrently; a callback may call them *)
(* again on the same dispatcher while its dispatch holds the handlers      *)
(* mutex.  Each thread has a call stack of frames; one action is one       *)
(* atomic step of one thread.                                              *)
(***************************************************************************)
EXTENDS Naturals, Sequences, FiniteSets, TLC

VARIABLES
    handlers,        \* Mutex<Vec<EventHandler<T>>>: the data
    added_queue,     \* Mutex<Vec<EventHandler<T>>>: the data
    removed_queue,   \* Mutex<Vec<EventHandlerId>>: the data
    handlers_lock,   \* owner of the handlers mutex, NoOwner when unlocked
    added_lock,      \* owner of the added_queue mutex
    removed_lock,    \* owner of the removed_queue mutex
    stack,           \* per thread: the frames of the calls in progress
    world,           \* the callers: threads, handlers they register, ids, events
    budget,          \* top-level calls the callers may still make
    nextUid,         \* identity of the next EventHandler object constructed
    ndisp,           \* number of dispatch calls that acquired the handlers mutex
    hist             \* what an observer of the calls and callbacks has seen

vars == <<handlers, added_queue, removed_queue, handlers_lock, added_lock,
          removed_lock, stack, world, budget, nextUid, ndisp, hist>>

\* ------------------------------------------------------------------ bounds

\* Top-level calls made by all threads together in one behaviour, for each
\* of the worlds below.
MaxCalls == 3
MaxRaceCalls == 4
MaxSeqCalls == 4
MaxScenarioCalls == 5
MaxPairCalls == 4
MaxReplaceCalls == 5

\* ------------------------------------------------------------- data types

\* The unlocked state of a Mutex.
NoOwner == 0

\* A call of one of the three public operations, as a caller or a callback
\* makes it.  cb is the callback of the handler an add_handler call passes:
\* the sequence of calls that callback makes on the dispatcher when invoked.
Call(fn, id, ev, cb) == [fn |-> fn, id |-> id, ev |-> ev, cb |-> cb]
CAdd(id, cb) == Call("add_handler", id, 0, cb)
CRemove(id) == Call("remove_handler", id, 0, <<>>)
CDispatch(ev) == Call("dispatch", 0, ev, <<>>)

\* EventHandler<T>: an id and a callback; uid tells two handler objects with
\* the same id apart.
EventHandler(id, uid, cb) == [id |-> id, uid |-> uid, cb |-> cb]
NoHandler == EventHandler(0, 0, <<>>)

\* ------------------------------------------------------- Vec and Mutex ops

\* try_lock of a reentrant mutex: the owner is let in again.
try_lock_reentrant(owner, t) == owner \in {NoOwner, t}

\* A try_lock that always fails: every caller finds the mutex taken.
try_lock_never(owner, t) == FALSE

\* A try_lock that never fails: the live list is not protected at all.
try_lock_unchecked(owner, t) == TRUE

\* Mutex::try_lock: Some(guard) exactly when the mutex is unlocked; the
\* mutex is not reentrant, so the owner itself gets None as well.
try_lock(owner, t) == owner = NoOwner

\* A MutexGuard that is leaked (mem::forget): the mutex stays locked.
leak_guard(owner) == owner

\* A MutexGuard is dropped: the mutex is unlocked.
drop_guard(owner) == NoOwner

\* Vec::insert(0, x): the new element goes first.
push_front(v, x) == <<x>> \o v

\* Vec::push.
push(v, x) == Append(v, x)

\* rposition instead of position: the last index whose handler has the id.
position_last(v, handler_id) ==
    IF \E i \in 1..Len(v) : v[i].id = handler_id
    THEN CHOOSE i \in 1..Len(v) :
            /\ v[i].id = handler_id
            /\ \A j \in (i + 1)..Len(v) : v[j].id # handler_id
    ELSE 0

\* handlers.iter().position(|handler| handler.id() == handler_id):
\* the first index whose handler has the id, 0 for None.
position(v, handler_id) ==
    IF \E i \in 1..Len(v) : v[i].id = handler_id
    THEN CHOOSE i \in 1..Len(v) :
            /\ v[i].id = handler_id
            /\ \A j \in 1..(i - 1) : v[j].id # handler_id
    ELSE 0

\* Vec::remove(index): the elements after the removed one shift down.
remove_shift(v, index) ==
    [j \in 1..(Len(v) - 1) |-> IF j < index THEN v[j] ELSE v[j + 1]]

\* Vec::pop instead of swap_remove: the last element is the one removed.
swap_remove_pop(v, index) == SubSeq(v, 1, Len(v) - 1)

\* Vec::swap_remove(index): the last element takes the removed one's slot.
swap_remove(v, index) ==
    LET n == Len(v)
    IN  [j \in 1..(n - 1) |-> IF j = index THEN v[n] ELSE v[j]]

\* if let Some(index) = position(..) { handlers.swap_remove(index); }
remove_first(v, handler_id) ==
    LET index == position(v, handler_id)
    IN  IF index # 0 THEN swap_remove(v, index) ELSE v

\* removed_queue.drain(..) without the loop body: no removal is applied.
drain_discard(v, q) == v

\* Only the first drained id is applied; the rest of the queue is dropped.
drain_first_only(v, q) == IF q = <<>> THEN v ELSE remove_first(v, Head(q))

\* for removed in removed_queue.drain(..) { remove_first(handlers, removed) }
RECURSIVE drain_removed(_, _)
drain_removed(v, q) ==
    IF q = <<>> THEN v
    ELSE drain_removed(remove_first(v, Head(q)), Tail(q))

\* added_queue.drain(..) without the extend: the drained handlers are lost.
extend_discard(v, q) == v

\* The drained handlers are put in front of the live list.
extend_front(v, q) == q \o v

\* handlers.extend(added_queue.drain(..))
extend(v, q) == v \o q

\* ------------------------------------------------------------ call stacks

Frame(fn, pc, h, id, ev, d) ==
    [fn |-> fn, pc |-> pc, h |-> h, id |-> id, ev |-> ev, d |-> d,
     i |-> 0, k |-> 0]

Depth(t) == Len(stack[t])
Top(t) == stack[t][Depth(t)]

\* The handler the loop of dispatch frame f is at (none before the first).
Current(f) == IF f.i \in 1..Len(handlers) THEN handlers[f.i] ELSE NoHandler

\* The dispatch frame of t is between two handlers (or before the first).
BetweenHandlers(f) ==
    /\ f.fn = "dispatch"
    /\ f.pc = "iter"
    /\ f.k >= Len(Current(f).cb)

\* The callback of handler f.i is running and has calls left to make.
InCallback(f) ==
    /\ f.fn = "dispatch"
    /\ f.pc = "iter"
    /\ f.k < Len(Current(f).cb)

\* The calls thread t can make now: any call of the callers' repertoire when
\* it is idle, the next call of the running callback when it is in one.
TopCalls ==
    {CAdd(x.id, x.cb) : x \in world.adds}
        \cup {CRemove(id) : id \in world.rms}
        \cup {CDispatch(ev) : ev \in world.events}

NextCalls(t) ==
    IF Depth(t) = 0
    THEN IF budget > 0 THEN TopCalls ELSE {}
    ELSE IF InCallback(Top(t)) THEN {Current(Top(t)).cb[Top(t).k + 1]}
    ELSE {}

\* The dispatch whose callback makes the call (0: a top-level call), and the
\* handler making it.
Enclosing(t) == IF Depth(t) = 0 THEN 0 ELSE Top(t).d
Caller(t) == IF Depth(t) = 0 THEN 0 ELSE Current(Top(t)).uid

\* The stack of t once it has made its next call: the callback moves past
\* the call; `frames` are the frames of the call (none if it returned).
Entered(t, frames) ==
    IF Depth(t) = 0
    THEN [stack EXCEPT ![t] = frames]
    ELSE [stack EXCEPT ![t] =
            <<[Top(t) EXCEPT !.k = @ + 1]>> \o frames]

Spent(t) == IF Depth(t) = 0 THEN budget - 1 ELSE budget

Returned(t) == [stack EXCEPT ![t] = SubSeq(@, 1, Len(@) - 1)]

Goto(t, pc) == [stack EXCEPT ![t][Depth(t)].pc = pc]

\* --------------------------------------------------------------- observer

\* One observation.  e: what happened; t: the thread; u, id: the handler
\* object and its id; d: the dispatch (for a call made by a callback, the
\* dispatch that invoked the callback; 0 for a top-level call); ev: the
\* event payload; by: the handler whose callback made the call (0: none);
\* snap: the handler objects of the live list (acquire, release); n: the
\* number of calls the invoked callback makes (invoke).
Ev(e, t, u, id, d, ev, by, snap, n) ==
    [e |-> e, t |-> t, u |-> u, id |-> id, d |-> d, ev |-> ev, by |-> by,
     snap |-> snap, n |-> n]

Uids(v) == [j \in 1..Len(v) |-> v[j].uid]

\* ---------------------------------------------------------------- actions

\* add_handler: match self.handlers.try_lock()
AddHandlerTry(t) ==
    \E c \in NextCalls(t) :
        /\ c.fn = "add_handler"
        /\ LET ok == try_lock(handlers_lock, t)
               h == EventHandler(c.id, nextUid, c.cb)
           IN  /\ handlers_lock' = IF ok THEN t ELSE handlers_lock
               /\ stack' = Entered(t, <<Frame("add_handler",
                                IF ok THEN "push" ELSE "queue_lock",
                                h, c.id, 0, Enclosing(t))>>)
               /\ hist' = Append(hist,
                    Ev(IF ok THEN "add_direct" ELSE "add_queued", t, nextUid,
                       c.id, Enclosing(t), 0, Caller(t), <<>>, 0))
        /\ nextUid' = nextUid + 1
        /\ budget' = Spent(t)
        /\ UNCHANGED <<handlers, added_queue, removed_queue, added_lock,
                       removed_lock, world, ndisp>>

\* Some(mut handlers) => handlers.push(handler); the guard is dropped.
AddHandlerPush(t) ==
    /\ Depth(t) > 0
    /\ Top(t).fn = "add_handler"
    /\ Top(t).pc = "push"
    /\ handlers' = push(handlers, Top(t).h)
    /\ handlers_lock' = drop_guard(handlers_lock)
    /\ stack' = Returned(t)
    /\ hist' = Append(hist, Ev("add_return", t, Top(t).h.uid, Top(t).id,
                               Top(t).d, 0, 0, <<>>, 0))
    /\ UNCHANGED <<added_queue, removed_queue, added_lock, removed_lock,
                   world, budget, nextUid, ndisp>>

\* None => self.added_queue.lock(): blocks while the mutex is held.
AddHandlerQueueLock(t) ==
    /\ Depth(t) > 0
    /\ Top(t).fn = "add_handler"
    /\ Top(t).pc = "queue_lock"
    /\ added_lock = NoOwner
    /\ added_lock' = t
    /\ stack' = Goto(t, "queue_push")
    /\ UNCHANGED <<handlers, added_queue, removed_queue, handlers_lock,
                   removed_lock, world, budget, nextUid, ndisp, hist>>

\* .push(handler); the guard is dropped.
AddHandlerQueuePush(t) ==
    /\ Depth(t) > 0
    /\ Top(t).fn = "add_handler"
    /\ Top(t).pc = "queue_push"
    /\ added_queue' = push(added_queue, Top(t).h)
    /\ added_lock' = drop_guard(added_lock)
    /\ stack' = Returned(t)
    /\ hist' = Append(hist, Ev("add_deferred", t, Top(t).h.uid, Top(t).id,
                               Top(t).d, 0, 0, <<>>, 0))
    /\ UNCHANGED <<handlers, removed_queue, handlers_lock, removed_lock,
                   world, budget, nextUid, ndisp>>

\* remove_handler: match self.handlers.try_lock()
RemoveHandlerTry(t) ==
    \E c \in NextCalls(t) :
        /\ c.fn = "remove_handler"
        /\ LET ok == try_lock(handlers_lock, t)
           IN  /\ handlers_lock' = IF ok THEN t ELSE handlers_lock
               /\ stack' = Entered(t, <<Frame("remove_handler",
                                IF ok THEN "remove" ELSE "queue_lock",
                                NoHandler, c.id, 0, Enclosing(t))>>)
               /\ hist' = Append(hist,
                    Ev(IF ok THEN "rm_direct" ELSE "rm_queued", t, 0, c.id,
                       Enclosing(t), 0, Caller(t), <<>>, 0))
        /\ budget' = Spent(t)
        /\ UNCHANGED <<handlers, added_queue, removed_queue, added_lock,
                       removed_lock, world, nextUid, ndisp>>

\* Some(mut handlers) => position / swap_remove; the guard is dropped.
RemoveHandlerRemove(t) ==
    /\ Depth(t) > 0
    /\ Top(t).fn = "remove_handler"
    /\ Top(t).pc = "remove"
    /\ handlers' = remove_first(handlers, Top(t).id)
    /\ handlers_lock' = drop_guard(handlers_lock)
    /\ stack' = Returned(t)
    /\ hist' = Append(hist, Ev("rm_return", t, 0, Top(t).id, Top(t).d, 0, 0,
                               <<>>, 0))
    /\ UNCHANGED <<added_queue, removed_queue, added_lock, removed_lock,
                   world, budget, nextUid, ndisp>>

\* None => self.removed_queue.lock(): blocks while the mutex is held.
RemoveHandlerQueueLock(t) ==
    /\ Depth(t) > 0
    /\ Top(t).fn = "remove_handler"
    /\ Top(t).pc = "queue_lock"
    /\ removed_lock = NoOwner
    /\ removed_lock' = t
    /\ stack' = Goto(t, "queue_push")
    /\ UNCHANGED <<handlers, added_queue, removed_queue, handlers_lock,
                   added_lock, world, budget, nextUid, ndisp, hist>>

\* .push(handler_id); the guard is dropped.
RemoveHandlerQueuePush(t) ==
    /\ Depth(t) > 0
    /\ Top(t).fn = "remove_handler"
    /\ Top(t).pc = "queue_push"
    /\ removed_queue' = push(removed_queue, Top(t).id)
    /\ removed_lock' = drop_guard(removed_lock)
    /\ stack' = Returned(t)
    /\ hist' = Append(hist, Ev("rm_deferred", t, 0, Top(t).id, Top(t).d, 0, 0,
                               <<>>, 0))
    /\ UNCHANGED <<handlers, added_queue, handlers_lock, added_lock, world,
                   budget, nextUid, ndisp>>

\* dispatch: self.handlers.try_lock(), else return.
DispatchTry(t) ==
    \E c \in NextCalls(t) :
        /\ c.fn = "dispatch"
        /\ IF try_lock(handlers_lock, t)
           THEN /\ handlers_lock' = t
                /\ ndisp' = ndisp + 1
                /\ stack' = Entered(t, <<Frame("dispatch", "iter", NoHandler,
                                               0, c.ev, ndisp + 1)>>)
                /\ hist' = Append(hist, Ev("acquire", t, 0, 0, ndisp + 1,
                                           c.ev, Caller(t), Uids(handlers), 0))
           ELSE /\ handlers_lock' = handlers_lock
                /\ ndisp' = ndisp
                /\ stack' = Entered(t, <<>>)
                /\ hist' = Append(hist, Ev("drop", t, 0, 0, Enclosing(t),
                                           c.ev, Caller(t), <<>>, 0))
        /\ budget' = Spent(t)
        /\ UNCHANGED <<handlers, added_queue, removed_queue, added_lock,
                       removed_lock, world, nextUid>>

\* for handler in handlers.iter_mut() { handler.call(event); }: the next
\* handler's callback is entered.
DispatchCall(t) ==
    /\ Depth(t) > 0
    /\ BetweenHandlers(Top(t))
    /\ Top(t).i < Len(handlers)
    /\ LET h == handlers[Top(t).i + 1]
       IN  /\ stack' = [stack EXCEPT ![t][Depth(t)].i = @ + 1,
                                     ![t][Depth(t)].k = 0]
           /\ hist' = Append(hist, Ev("invoke", t, h.uid, h.id, Top(t).d,
                                      Top(t).ev, 0, <<>>, Len(h.cb)))
    /\ UNCHANGED <<handlers, added_queue, removed_queue, handlers_lock,
                   added_lock, removed_lock, world, budget, nextUid, ndisp>>

\* The loop is over; self.removed_queue.lock() blocks while the mutex is held.
DispatchLockRemoved(t) ==
    /\ Depth(t) > 0
    /\ BetweenHandlers(Top(t))
    /\ Top(t).i >= Len(handlers)
    /\ removed_lock = NoOwner
    /\ removed_lock' = t
    /\ stack' = Goto(t, "drain_removed")
    /\ UNCHANGED <<handlers, added_queue, removed_queue, handlers_lock,
                   added_lock, world, budget, nextUid, ndisp, hist>>

\* for removed in ...drain(..) { position / swap_remove }; the guard of
\* removed_queue is dropped at the end of the loop.
DispatchDrainRemoved(t) ==
    /\ Depth(t) > 0
    /\ Top(t).fn = "dispatch"
    /\ Top(t).pc = "drain_removed"
    /\ handlers' = drain_removed(handlers, removed_queue)
    /\ removed_queue' = <<>>
    /\ removed_lock' = drop_guard(removed_lock)
    /\ stack' = Goto(t, "lock_added")
    /\ UNCHANGED <<added_queue, handlers_lock, added_lock, world, budget,
                   nextUid, ndisp, hist>>

\* self.added_queue.lock() blocks while the mutex is held.
DispatchLockAdded(t) ==
    /\ Depth(t) > 0
    /\ Top(t).fn = "dispatch"
    /\ Top(t).pc = "lock_added"
    /\ added_lock = NoOwner
    /\ added_lock' = t
    /\ stack' = Goto(t, "extend")
    /\ UNCHANGED <<handlers, added_queue, removed_queue, handlers_lock,
                   removed_lock, world, budget, nextUid, ndisp, hist>>

\* handlers.extend(...drain(..)); the guard of added_queue, a temporary of
\* the statement, is dropped at its end; the guard of handlers is still held.
DispatchExtend(t) ==
    /\ Depth(t) > 0
    /\ Top(t).fn = "dispatch"
    /\ Top(t).pc = "extend"
    /\ handlers' = extend(handlers, added_queue)
    /\ added_queue' = <<>>
    /\ added_lock' = drop_guard(added_lock)
    /\ stack' = Goto(t, "return")
    /\ UNCHANGED <<removed_queue, handlers_lock, removed_lock, world, budget,
                   nextUid, ndisp, hist>>

\* End of dispatch: the guard of handlers is dropped and dispatch returns.
DispatchReturn(t) ==
    /\ Depth(t) > 0
    /\ Top(t).fn = "dispatch"
    /\ Top(t).pc = "return"
    /\ handlers_lock' = drop_guard(handlers_lock)
    /\ stack' = Returned(t)
    /\ hist' = Append(hist, Ev("release", t, 0, 0, Top(t).d, Top(t).ev, 0,
                               Uids(handlers), 0))
    /\ UNCHANGED <<handlers, added_queue, removed_queue, added_lock,
                   removed_lock, world, budget, nextUid, ndisp>>

Next ==
    \/ \E t \in world.threads : AddHandlerTry(t)
    \/ \E t \in world.threads : AddHandlerPush(t)
    \/ \E t \in world.threads : AddHandlerQueueLock(t)
    \/ \E t \in world.threads : AddHandlerQueuePush(t)
    \/ \E t \in world.threads : RemoveHandlerTry(t)
    \/ \E t \in world.threads : RemoveHandlerRemove(t)
    \/ \E t \in world.threads : RemoveHandlerQueueLock(t)
    \/ \E t \in world.threads : RemoveHandlerQueuePush(t)
    \/ \E t \in world.threads : DispatchTry(t)
    \/ \E t \in world.threads : DispatchCall(t)
    \/ \E t \in world.threads : DispatchLockRemoved(t)
    \/ \E t \in world.threads : DispatchDrainRemoved(t)
    \/ \E t \in world.threads : DispatchLockAdded(t)
    \/ \E t \in world.threads : DispatchExtend(t)
    \/ \E t \in world.threads : DispatchReturn(t)

\* ----------------------------------------------------------------- worlds

Threads == {1, 2}

\* EventDispatcher::new() with the callers of `w`.
InitWith(w) ==
    /\ handlers = <<>>
    /\ added_queue = <<>>
    /\ removed_queue = <<>>
    /\ handlers_lock = NoOwner
    /\ added_lock = NoOwner
    /\ removed_lock = NoOwner
    /\ stack = [t \in Threads |-> <<>>]
    /\ world = w
    /\ budget = w.calls
    /\ nextUid = 1
    /\ ndisp = 0
    /\ hist = <<>>

\* A handler whose callback only records that it ran.
Plain(id) == [id |-> id, cb |-> <<>>]

\* Handler 2 dispatches again, unregisters itself and registers a handler 1,
\* all from its callback.
Reentrant == [id |-> 2, cb |-> <<CDispatch(43), CRemove(2), CAdd(1, <<>>)>>]

\* Handler 2 registers a handler 1 and then unregisters id 1.
AddThenRemove == [id |-> 2, cb |-> <<CAdd(1, <<>>), CRemove(1)>>]

\* Handler 1 unregisters id 1 and then registers a new handler 1.
RemoveThenAdd == [id |-> 1, cb |-> <<CRemove(1), CAdd(1, <<>>)>>]

\* Handler B of the documented scenario: unregister(1) and register(4, D).
ScenarioB == [id |-> 2, cb |-> <<CRemove(1), CAdd(4, <<>>)>>]

\* Handler 2 unregisters id 1 and then registers a new handler 1.
Replacer == [id |-> 2, cb |-> <<CRemove(1), CAdd(1, <<>>)>>]

\* Two threads; a handler that only logs and one that calls back.
ConcurrentWorld ==
    [threads |-> {1, 2},
     calls |-> MaxCalls,
     adds |-> {Plain(1), Reentrant},
     rms |-> {1},
     events |-> {43}]

\* Two threads racing top-level calls; no callback calls back.
RaceWorld ==
    [threads |-> {1, 2},
     calls |-> MaxRaceCalls,
     adds |-> {Plain(1)},
     rms |-> {1},
     events |-> {43}]

\* One thread; callbacks that call back in every order.
SeqWorld ==
    [threads |-> {1},
     calls |-> MaxSeqCalls,
     adds |-> {Plain(1), Reentrant, AddThenRemove, RemoveThenAdd},
     rms |-> {1, 2},
     events |-> {43}]

\* One thread; the handlers A, B, C of the documented scenario.
ScenarioWorld ==
    [threads |-> {1},
     calls |-> MaxScenarioCalls,
     adds |-> {Plain(1), ScenarioB, Plain(3)},
     rms |-> {1},
     events |-> {43, 44}]

\* Two threads racing top-level calls on handlers with two different ids.
PairWorld ==
    [threads |-> {1, 2},
     calls |-> MaxPairCalls,
     adds |-> {Plain(1), Plain(2)},
     rms |-> {1},
     events |-> {43}]

\* One thread; a handler that replaces handler 1 between two that only log.
ReplaceWorld ==
    [threads |-> {1},
     calls |-> MaxReplaceCalls,
     adds |-> {Plain(1), Replacer, Plain(3)},
     rms |-> {3},
     events |-> {43}]

Init == InitWith(ConcurrentWorld)
InitRace == InitWith(RaceWorld)
InitSeq == InitWith(SeqWorld)
InitScenario == InitWith(ScenarioWorld)
InitPair == InitWith(PairWorld)
InitReplace == InitWith(ReplaceWorld)

Spec == Init /\ [][Next]_vars
SpecRace == InitRace /\ [][Next]_vars
SpecSeq == InitSeq /\ [][Next]_vars
SpecScenario == InitScenario /\ [][Next]_vars
SpecPair == InitPair /\ [][Next]_vars
SpecReplace == InitReplace /\ [][Next]_vars

\* A thread that is inside a call is scheduled again; the queue mutexes are
\* eventually granted to a waiter once they stay free.
InCall(t) ==
    \/ AddHandlerPush(t)
    \/ AddHandlerQueueLock(t)
    \/ AddHandlerQueuePush(t)
    \/ RemoveHandlerRemove(t)
    \/ RemoveHandlerQueueLock(t)
    \/ RemoveHandlerQueuePush(t)
    \/ (Depth(t) > 0 /\ AddHandlerTry(t))
    \/ (Depth(t) > 0 /\ RemoveHandlerTry(t))
    \/ (Depth(t) > 0 /\ DispatchTry(t))
    \/ DispatchCall(t)
    \/ DispatchLockRemoved(t)
    \/ DispatchDrainRemoved(t)
    \/ DispatchLockAdded(t)
    \/ DispatchExtend(t)
    \/ DispatchReturn(t)

FairSpec == Init /\ [][Next]_vars /\ \A t \in Threads : WF_vars(InCall(t))

\* ---------------------------------------------------- reading the history

Pos == 1..Len(hist)
IsAdd(x) == x.e \in {"add_direct", "add_queued"}
IsRemove(x) == x.e \in {"rm_direct", "rm_queued"}
IsDispatch(x) == x.e \in {"acquire", "drop"}

\* Where dispatch d acquired the handlers mutex, and where it returned.
AcqAt(d) == CHOOSE p \in Pos : hist[p].e = "acquire" /\ hist[p].d = d
Released(d) == \E p \in Pos : hist[p].e = "release" /\ hist[p].d = d
RelAt(d) == CHOOSE p \in Pos : hist[p].e = "release" /\ hist[p].d = d

\* The invocations dispatch d made, in order.
Invoked(d) == SelectSeq(hist, LAMBDA x : x.e = "invoke" /\ x.d = d)
InvokedIds(d) == [j \in 1..Len(Invoked(d)) |-> Invoked(d)[j].id]
InvokedUids(d) == [j \in 1..Len(Invoked(d)) |-> Invoked(d)[j].u]

\* Where handler object u was passed to add_handler, and its id.
AddAt(u) == CHOOSE p \in Pos : IsAdd(hist[p]) /\ hist[p].u = u
IdOf(u) == hist[AddAt(u)].id

\* -------------------------------------------------------------- properties

\* C1 (uncontended delivery): when all that happened before a dispatch
\* acquired the handlers mutex are add_handler calls that took the direct
\* path, then by the time the dispatch returns it has invoked exactly the
\* handlers registered, each once, in registration order, with its event,
\* and no other callback has run.
C1_UncontendedDelivery ==
    \A d \in 1..ndisp :
        (/\ Released(d)
         /\ \A p \in 1..(AcqAt(d) - 1) :
                hist[p].e \in {"add_direct", "add_return"})
        => LET regs == SelectSeq(SubSeq(hist, 1, AcqAt(d) - 1),
                                 LAMBDA x : x.e = "add_direct")
               inv == Invoked(d)
           IN  /\ Len(inv) = Len(regs)
               /\ \A j \in 1..Len(regs) :
                    /\ inv[j].u = regs[j].u
                    /\ inv[j].id = regs[j].id
                    /\ inv[j].ev = hist[AcqAt(d)].ev
               /\ \A p \in 1..RelAt(d) :
                    hist[p].e = "invoke" => hist[p].d = d

\* Two handlers were registered directly and one dispatch has delivered to
\* both.
C1_Witness ==
    \E d \in 1..ndisp :
        /\ Released(d)
        /\ AcqAt(d) > 4
        /\ \A p \in 1..(AcqAt(d) - 1) :
                hist[p].e \in {"add_direct", "add_return"}
        /\ Len(Invoked(d)) >= 2

\* C2 (contention drop): a dispatch called while the handlers mutex is held
\* (by another thread's operation or by the dispatch whose callback makes the
\* call) returns at once: it invokes nothing and leaves the live list, both
\* queues and the three mutexes as they were.
C2_ContentionDrop ==
    [][(/\ Len(hist') = Len(hist) + 1
        /\ IsDispatch(hist'[Len(hist')])
        /\ handlers_lock # NoOwner)
       => /\ hist'[Len(hist')].e = "drop"
          /\ handlers' = handlers
          /\ added_queue' = added_queue
          /\ removed_queue' = removed_queue
          /\ <<handlers_lock, added_lock, removed_lock>>' =
                <<handlers_lock, added_lock, removed_lock>>
          /\ ndisp' = ndisp
          /\ \A t \in Threads : Len(stack'[t]) = Len(stack[t])]_vars

\* A dispatch was dropped on another thread and one inside a callback, while
\* handlers were registered.
C2_Witness ==
    /\ \E p \in Pos : hist[p].e = "drop" /\ hist[p].by = 0
    /\ \E p \in Pos : hist[p].e = "drop" /\ hist[p].by # 0
    /\ handlers # <<>>

\* C3 (reentrant add): a handler that a callback registers during dispatch d
\* is not invoked by dispatch d, and the next dispatch that acquires the
\* handlers mutex invokes it exactly once (unless a remove_handler of its id
\* took the direct path in between).
C3_ReentrantAdd ==
    \A p \in Pos :
        (IsAdd(hist[p]) /\ hist[p].by # 0)
        => LET u == hist[p].u
               d == hist[p].d
           IN  /\ \A q \in Pos :
                    ~(hist[q].e = "invoke" /\ hist[q].u = u /\ hist[q].d = d)
               /\ (/\ d + 1 <= ndisp
                   /\ Released(d + 1)
                   /\ \A q \in p..AcqAt(d + 1) :
                        ~(hist[q].e = "rm_direct" /\ hist[q].id = hist[p].id))
                  => Cardinality({q \in Pos : /\ hist[q].e = "invoke"
                                               /\ hist[q].u = u
                                               /\ hist[q].d = d + 1}) = 1

\* A callback registered a handler, and the next dispatch has invoked it.
C3_Witness ==
    \E p \in Pos :
        /\ hist[p].e = "add_queued"
        /\ hist[p].by # 0
        /\ hist[p].d + 1 <= ndisp
        /\ Released(hist[p].d + 1)
        /\ \E q \in Pos : /\ hist[q].e = "invoke"
                          /\ hist[q].u = hist[p].u
                          /\ hist[q].d = hist[p].d + 1

\* The calls the callback of handler u made during dispatch d.
CallsBy(u, d) ==
    {q \in Pos : /\ hist[q].by = u
                 /\ hist[q].d = d
                 /\ (IsAdd(hist[q]) \/ IsRemove(hist[q]) \/ hist[q].e = "drop")}

\* A callback of dispatch d that unregisters the id of its own handler u,
\* the only live handler with that id.
SelfRemove(p) ==
    /\ IsRemove(hist[p])
    /\ hist[p].by # 0
    /\ hist[p].id = IdOf(hist[p].by)
    /\ LET snap == hist[AcqAt(hist[p].d)].snap
       IN  Cardinality({j \in 1..Len(snap) : IdOf(snap[j]) = hist[p].id}) = 1

\* C4 (reentrant self-remove): when the callback of handler u calls
\* remove_handler with u's own id during dispatch d (u being the only live
\* handler with that id), the callback still runs to its end, and once
\* dispatch d has returned u is in neither the live list nor added_queue and
\* is never invoked again.
C4_ReentrantSelfRemove ==
    \A p \in Pos :
        (SelfRemove(p) /\ Released(hist[p].d))
        => LET u == hist[p].by
               d == hist[p].d
           IN  /\ \E q \in Pos :
                    /\ hist[q].e = "invoke"
                    /\ hist[q].u = u
                    /\ hist[q].d = d
                    /\ hist[q].n = Cardinality(CallsBy(u, d))
               /\ \A j \in 1..Len(hist[RelAt(d)].snap) :
                    hist[RelAt(d)].snap[j] # u
               /\ \A j \in 1..Len(handlers) : handlers[j].uid # u
               /\ \A j \in 1..Len(added_queue) : added_queue[j].uid # u
               /\ \A q \in RelAt(d)..Len(hist) :
                    ~(hist[q].e = "invoke" /\ hist[q].u = u)

\* A callback unregistered its own handler through removed_queue, and a
\* later dispatch has run without it.
C4_Witness ==
    \E p \in Pos :
        /\ SelfRemove(p)
        /\ hist[p].e = "rm_queued"
        /\ hist[p].d + 1 <= ndisp
        /\ Released(hist[p].d + 1)

\* The ids of the handler objects of a snapshot of the live list.
SnapIds(snap) == {IdOf(snap[j]) : j \in 1..Len(snap)}

\* C5 (add-then-remove in the same cycle): when, during one dispatch d,
\* add_handler for id X and then remove_handler(X) are both queued, and no
\* live handler had id X when d acquired the mutex, the live list holds no
\* handler with id X when d returns.
C5_AddThenRemoveAbsent ==
    \A pa \in Pos : \A pr \in Pos :
        (/\ pa < pr
         /\ hist[pa].e = "add_queued"
         /\ hist[pr].e = "rm_queued"
         /\ hist[pa].id = hist[pr].id
         /\ hist[pa].d # 0
         /\ hist[pa].d = hist[pr].d
         /\ hist[pa].by # 0
         /\ hist[pr].by # 0
         /\ Released(hist[pa].d)
         /\ hist[pa].id \notin SnapIds(hist[AcqAt(hist[pa].d)].snap))
        => hist[pa].id \notin SnapIds(hist[RelAt(hist[pa].d)].snap)

\* add_handler has returned for handler object u.
AddReturned(u) ==
    \E r \in Pos : hist[r].e \in {"add_return", "add_deferred"} /\ hist[r].u = u

\* Handler object u is in the live list or in added_queue.
Registered(u) ==
    \/ \E j \in 1..Len(handlers) : handlers[j].uid = u
    \/ \E j \in 1..Len(added_queue) : added_queue[j].uid = u

\* The remove_handler call observed at q had returned before position p.
RemoveReturnedBefore(q, p) ==
    \E r \in (q + 1)..(p - 1) :
        /\ hist[r].e \in {"rm_return", "rm_deferred"}
        /\ hist[r].t = hist[q].t

\* C6 (idempotent unregister): a remove_handler of an id that is not
\* registered when it is called is a no-op, also for handlers registered
\* later: a handler whose add_handler has returned leaves the live list and
\* added_queue only through a remove_handler of its id that had not already
\* returned when its add_handler was called.
C6_IdempotentUnregister ==
    \A p \in Pos :
        (/\ IsAdd(hist[p])
         /\ AddReturned(hist[p].u)
         /\ ~Registered(hist[p].u))
        => \E q \in Pos :
                /\ IsRemove(hist[q])
                /\ hist[q].id = hist[p].id
                /\ (q > p \/ ~RemoveReturnedBefore(q, p))

\* C7 (no deadlock, termination): under fair scheduling every call that a
\* thread has started returns, whatever the other thread does and whatever
\* the callbacks call: no thread waits forever on one of the three mutexes.
C7_EveryCallReturns ==
    \A t \in Threads : (Depth(t) > 0) ~> (Depth(t) = 0)

\* A dispatch that has called all its handlers waits for a queue mutex that
\* the other thread holds for its push.
C7_Witness ==
    \E t \in Threads :
        /\ Depth(t) > 0
        /\ Top(t).fn = "dispatch"
        /\ \/ /\ BetweenHandlers(Top(t))
              /\ Top(t).i >= Len(handlers)
              /\ removed_lock \notin {NoOwner, t}
           \/ /\ Top(t).pc = "lock_added"
              /\ added_lock \notin {NoOwner, t}

Count(v, x) == Cardinality({j \in 1..Len(v) : v[j] = x})
IdsOf(v) == [j \in 1..Len(v) |-> v[j].id]
IsPrefix(a, b) == Len(a) <= Len(b) /\ SubSeq(b, 1, Len(a)) = a
Monus(a, b) == IF a >= b THEN a - b ELSE 0

\* C8 (deferred mutations are never lost): entries leave removed_queue and
\* added_queue only by being applied to the live list (each queued removal
\* takes one handler with its id out of the list if there is one, each queued
\* handler is in the list afterwards), and when a dispatch returns, whatever
\* is still queued was queued after that dispatch had acquired the mutex.
C8_DeferredNeverLost ==
    [][/\ ~IsPrefix(removed_queue, removed_queue')
            => /\ removed_queue' = <<>>
               /\ \A j \in 1..Len(removed_queue) :
                    LET x == removed_queue[j]
                    IN  Count(IdsOf(handlers'), x) =
                            Monus(Count(IdsOf(handlers), x),
                                  Count(removed_queue, x))
       /\ ~IsPrefix(added_queue, added_queue')
            => /\ added_queue' = <<>>
               /\ \A j \in 1..Len(added_queue) :
                    \E i \in 1..Len(handlers') : handlers'[i] = added_queue[j]
       /\ (Len(hist') = Len(hist) + 1 /\ hist'[Len(hist')].e = "release")
            => LET a == AcqAt(hist'[Len(hist')].d)
               IN  /\ \A j \in 1..Len(added_queue') :
                        \E r \in (a + 1)..Len(hist) :
                            /\ hist[r].e = "add_deferred"
                            /\ hist[r].u = added_queue'[j].uid
                   /\ \A j \in 1..Len(removed_queue') :
                        LET x == removed_queue'[j]
                        IN  Count(removed_queue', x) <=
                              Cardinality({r \in (a + 1)..Len(hist) :
                                    /\ hist[r].e = "rm_deferred"
                                    /\ hist[r].id = x})]_vars

\* A registration and a removal were queued by calls that had returned
\* before a dispatch acquired the mutex, and that dispatch has returned.
C8_Witness ==
    \E d \in 1..ndisp :
        /\ Released(d)
        /\ \E p \in 1..AcqAt(d) : hist[p].e = "add_deferred"
        /\ \E p \in 1..AcqAt(d) : hist[p].e = "rm_deferred"

\* The top-level calls made so far, each as <<operation, id or event>>.
Shape(x) ==
    IF IsAdd(x) THEN <<"add_handler", x.id>>
    ELSE IF IsRemove(x) THEN <<"remove_handler", x.id>>
    ELSE <<"dispatch", x.ev>>
TopLevel ==
    SelectSeq(hist, LAMBDA x : /\ x.by = 0
                               /\ (IsAdd(x) \/ IsRemove(x) \/ IsDispatch(x)))

\* The documented scenario: A, B, C registered with ids 1, 2, 3 (B's
\* callback unregisters 1 and registers 4), then dispatch(43), dispatch(44).
Scenario ==
    << <<"add_handler", 1>>, <<"add_handler", 2>>, <<"add_handler", 3>>,
       <<"dispatch", 43>>, <<"dispatch", 44>> >>
Ran(n) ==
    /\ Len(TopLevel) >= n
    /\ \A j \in 1..n : Shape(TopLevel[j]) = Scenario[j]

Range(v) == {v[j] : j \in 1..Len(v)}

\* C9 as stated: dispatch(43) logs ids 2 and 3 only (neither 1 nor 4), and
\* dispatch(44) logs exactly ids 2, 3 and 4.
C9_AsStated ==
    /\ (Ran(4) /\ Released(1)) => Range(InvokedIds(1)) = {2, 3}
    /\ (Ran(5) /\ Released(2))
            => Len(InvokedIds(2)) = 3 /\ Range(InvokedIds(2)) = {2, 3, 4}

\* C9 (amended): dispatch(43) logs ids 1, 2, 3 in that order (handler 1 is
\* still invoked: its removal waits in removed_queue; handler 4 is not
\* invoked), and dispatch(44) logs exactly ids 3, 2, 4 in that order.
C9_Scenario ==
    /\ (Ran(4) /\ Released(1)) => InvokedIds(1) = <<1, 2, 3>>
    /\ (Ran(5) /\ Released(2)) => InvokedIds(2) = <<3, 2, 4>>

\* The scenario has run to the end of dispatch(44).
C9_Witness == Ran(5) /\ Released(2)

\* The remove_handler call observed at q: a call for the id of the handler
\* object added at p, made after that add_handler had returned and when no
\* other handler object with the id had been passed to add_handler.
MatchingRemove(p, q) ==
    /\ IsAdd(hist[p])
    /\ IsRemove(hist[q])
    /\ hist[q].id = hist[p].id
    /\ \E r \in (p + 1)..(q - 1) :
            hist[r].e \in {"add_return", "add_deferred"} /\ hist[r].u = hist[p].u
    /\ \A p2 \in 1..q : (IsAdd(hist[p2]) /\ p2 # p) => hist[p2].id # hist[p].id

\* C10 (handler lifecycle): a handler whose add_handler has returned stays
\* in the live list or added_queue while no remove_handler of its id is
\* called; and once a matching remove_handler, called after the add_handler
\* returned, has itself returned, the handler is in neither the live list nor
\* added_queue when the next dispatch that acquires the mutex has returned,
\* and is not invoked after that.
C10_Lifecycle ==
    \A p \in Pos :
        IsAdd(hist[p])
        => /\ (/\ AddReturned(hist[p].u)
               /\ \A q \in Pos : ~(IsRemove(hist[q]) /\ hist[q].id = hist[p].id))
              => Registered(hist[p].u)
           /\ \A q \in Pos : \A d \in 1..ndisp :
                (/\ MatchingRemove(p, q)
                 /\ Released(d)
                 /\ RemoveReturnedBefore(q, AcqAt(d)))
                => /\ ~Registered(hist[p].u)
                   /\ \A r \in RelAt(d)..Len(hist) :
                        ~(hist[r].e = "invoke" /\ hist[r].u = hist[p].u)

\* C11 (in-flight iteration is a snapshot): the handlers a dispatch has
\* invoked so far are always a prefix of the live list as it was when the
\* dispatch acquired the handlers mutex, each with the dispatch's event, and
\* once the dispatch has returned they are exactly that list, in order, each
\* once, whatever add_handler and remove_handler calls callbacks and other
\* threads made meanwhile.
C11_SnapshotIteration ==
    \A d \in 1..ndisp :
        LET snap == hist[AcqAt(d)].snap
            inv == Invoked(d)
        IN  /\ IsPrefix(InvokedUids(d), snap)
            /\ \A j \in 1..Len(inv) : inv[j].ev = hist[AcqAt(d)].ev
            /\ Released(d) => InvokedUids(d) = snap

\* A dispatch has returned during which a callback unregistered its own
\* handler and the other thread called add_handler.
C11_Witness ==
    \E d \in 1..ndisp :
        /\ Released(d)
        /\ Len(Invoked(d)) >= 1
        /\ \E p \in AcqAt(d)..RelAt(d) : SelfRemove(p) /\ hist[p].d = d
        /\ \E p \in AcqAt(d)..RelAt(d) :
                /\ hist[p].e = "add_queued"
                /\ hist[p].by = 0
                /\ hist[p].t # hist[AcqAt(d)].t

\* The frames of thread t that own a guard of the handlers mutex: a dispatch
\* that acquired it, an add_handler or remove_handler on its direct path.
HoldingFrames(t) ==
    {j \in 1..Len(stack[t]) :
        \/ stack[t][j].fn = "dispatch"
        \/ stack[t][j].pc \in {"push", "remove"}}

\* The threads that are inside a dispatch that acquired the handlers mutex.
Dispatching == {t \in Threads : \E j \in 1..Len(stack[t]) :
                                    stack[t][j].fn = "dispatch"}

\* Thread t takes a reconciliation step of its dispatch at program point pc.
Reconciles(t, pc) ==
    /\ Top(t).fn = "dispatch"
    /\ Top(t).pc = pc
    /\ stack'[t] # stack[t]

\* C12 (exclusive ownership of the live list): at most one operation owns
\* the handlers mutex at a time, and it is the one recorded as its owner; and
\* from a dispatch's acquisition to its return the live list changes only in
\* that dispatch's own two drain steps, every add_handler and remove_handler
\* call (from a callback or from the other thread) takes the queued path,
\* and the queues change only by such a call appending one entry or by the
\* dispatch draining them.
C12_ExclusiveLiveList ==
    /\ [](/\ Cardinality({t \in Threads : HoldingFrames(t) # {}}) <= 1
          /\ \A t \in Threads :
                /\ Cardinality(HoldingFrames(t)) <= 1
                /\ (HoldingFrames(t) # {}) <=> (handlers_lock = t))
    /\ [][\A t \in Dispatching :
            /\ handlers' # handlers
                => Reconciles(t, "drain_removed") \/ Reconciles(t, "extend")
            /\ removed_queue' # removed_queue
                => \/ Reconciles(t, "drain_removed") /\ removed_queue' = <<>>
                   \/ /\ Len(removed_queue') = Len(removed_queue) + 1
                      /\ IsPrefix(removed_queue, removed_queue')
            /\ added_queue' # added_queue
                => \/ Reconciles(t, "extend") /\ added_queue' = <<>>
                   \/ /\ Len(added_queue') = Len(added_queue) + 1
                      /\ IsPrefix(added_queue, added_queue')
            /\ (/\ Len(hist') = Len(hist) + 1
                /\ (IsAdd(hist'[Len(hist')]) \/ IsRemove(hist'[Len(hist')])))
                => hist'[Len(hist')].e \in {"add_queued", "rm_queued"}]_vars

\* A dispatch has drained removed_queue and not yet added_queue, a callback
\* of that dispatch has made a call, and the other thread is inside an
\* add_handler or remove_handler that found the mutex taken.
C12_Witness ==
    \E t \in Threads : \E t2 \in Threads :
        /\ t2 # t
        /\ Depth(t) > 0
        /\ Top(t).fn = "dispatch"
        /\ Top(t).pc = "lock_added"
        /\ Depth(t2) > 0
        /\ Top(t2).pc \in {"queue_lock", "queue_push"}
        /\ \E p \in Pos : /\ hist[p].by # 0
                           /\ hist[p].d = Top(t).d
                           /\ (IsAdd(hist[p]) \/ IsRemove(hist[p]))

\* The ids that callbacks of dispatch d asked to unregister and the handler
\* objects they asked to register, in the order of the requests.
RequestedRemovals(d) ==
    LET rq == SelectSeq(hist, LAMBDA x : x.e = "rm_queued" /\ x.d = d)
    IN  [j \in 1..Len(rq) |-> rq[j].id]
RequestedAdds(d) ==
    LET aq == SelectSeq(hist, LAMBDA x : x.e = "add_queued" /\ x.d = d)
    IN  [j \in 1..Len(aq) |-> aq[j].u]

\* The handler objects us after the removals ids, one at a time: the first
\* object with the id goes and the last object takes its slot; an id that no
\* object has is skipped.
RECURSIVE Reconciled(_, _)
Reconciled(us, ids) ==
    IF ids = <<>> THEN us
    ELSE LET hits == {j \in 1..Len(us) : IdOf(us[j]) = Head(ids)}
             n == Len(us)
         IN  IF hits = {} THEN Reconciled(us, Tail(ids))
             ELSE LET i == CHOOSE j \in hits : \A j2 \in hits : j <= j2
                  IN  Reconciled([j \in 1..(n - 1) |->
                                    IF j = i THEN us[n] ELSE us[j]], Tail(ids))

\* C13 (reconciliation result): with a single thread, when a dispatch that
\* acquired the handlers mutex returns, the live list is the list found at
\* acquisition with the ids its callbacks asked to unregister swap-removed in
\* request order (ids without a match skipped), followed by the handlers its
\* callbacks asked to register, in request order: removals come before
\* additions.
C13_ReconciliationResult ==
    \A d \in 1..ndisp :
        Released(d)
        => hist[RelAt(d)].snap =
              Reconciled(hist[AcqAt(d)].snap, RequestedRemovals(d))
                  \o RequestedAdds(d)

\* A dispatch over two handlers or more has returned whose callbacks queued
\* a removal that matched and a registration.
C13_Witness ==
    \E d \in 1..ndisp :
        /\ Released(d)
        /\ Len(hist[AcqAt(d)].snap) >= 2
        /\ RequestedAdds(d) # <<>>
        /\ \E j \in 1..Len(hist[AcqAt(d)].snap) :
                /\ IdOf(hist[AcqAt(d)].snap[j]) \in Range(RequestedRemovals(d))
                /\ hist[AcqAt(d)].snap[j] \notin Range(hist[RelAt(d)].snap)

\* The add_handler and remove_handler calls made so far for id x.
CallPos(x) == {p \in Pos : (IsAdd(hist[p]) \/ IsRemove(hist[p])) /\ hist[p].id = x}

\* The call observed at p had returned before position q.
ReturnedBefore(p, q) ==
    \E r \in (p + 1)..(q - 1) :
        /\ hist[r].t = hist[p].t
        /\ hist[r].id = hist[p].id
        /\ hist[r].e \in (IF IsAdd(hist[p])
                          THEN {"add_return", "add_deferred"}
                          ELSE {"rm_return", "rm_deferred"})

\* The callers register an id only when they have no registration of it
\* outstanding: over all callers and callbacks, the calls for one id start
\* with an add_handler, add_handler and remove_handler alternate, and each
\* call is made after the one before it has returned.
Disciplined ==
    \A p \in Pos :
        (IsAdd(hist[p]) \/ IsRemove(hist[p]))
        => LET before == {q \in CallPos(hist[p].id) : q < p}
           IN  IF before = {} THEN IsAdd(hist[p])
               ELSE LET q == CHOOSE q \in before : \A q2 \in before : q2 <= q
                    IN  /\ IsAdd(hist[q]) <=> IsRemove(hist[p])
                        /\ ReturnedBefore(q, p)

\* A dispatch has called its last handler's callback to the end and is
\* reconciling (or about to), or has reconciled and not yet returned:
\* lines 57-64.
InReconciliation ==
    \E t \in Threads :
        /\ Depth(t) > 0
        /\ Top(t).fn = "dispatch"
        /\ \/ Top(t).pc \in {"drain_removed", "lock_added", "extend", "return"}
           \/ BetweenHandlers(Top(t)) /\ Top(t).i >= Len(handlers)

\* C14 (live/pending disjointness): for callers that register an id only
\* when they have no registration of it outstanding, in every state outside
\* the reconciliation step of a dispatch no id is both the id of a handler of
\* the live list and the id of a handler of added_queue.
C14_LivePendingDisjoint ==
    (Disciplined /\ ~InReconciliation)
    => \A i \in 1..Len(handlers) : \A j \in 1..Len(added_queue) :
            handlers[i].id # added_queue[j].id

\* C15 (id uniqueness in the live list): for callers that register an id
\* only when they have no registration of it outstanding (add_handler and
\* remove_handler of an id alternate, each called after the previous one
\* returned), the live list never holds two handlers with the same id.
C15_UniqueLiveIds ==
    Disciplined
    => \A i \in 1..Len(handlers) : \A j \in 1..Len(handlers) :
            i # j => handlers[i].id # handlers[j].id

\* C16 (swap-removal): a remove_handler(id) that acquired the handlers
\* mutex, on a live list of length n whose first handler with that id is at
\* index i, leaves a list of length n - 1 in which slot i holds the former
\* last handler (when i is not the last slot) and every other remaining slot
\* is unchanged: exactly that one handler is gone and all others are kept.
C16_SwapRemoval ==
    [][(Len(hist') = Len(hist) + 1 /\ hist'[Len(hist')].e = "rm_return")
       => LET n == Len(handlers)
              hits == {j \in 1..n : handlers[j].id = hist'[Len(hist')].id}
          IN  hits # {}
              => LET i == CHOOSE j \in hits : \A j2 \in hits : j <= j2
                 IN  /\ Len(handlers') = n - 1
                     /\ i < n => handlers'[i] = handlers[n]
                     /\ \A j \in 1..(n - 1) :
                            j # i => handlers'[j] = handlers[j]
                     /\ Range(handlers') = Range(handlers) \ {handlers[i]}]_vars

\* Three handlers were registered directly, then remove_handler of the
\* first one's id took the direct path and has returned: the last handler
\* is now in the first slot.
C16_Witness ==
    /\ Len(hist) = 8
    /\ \A p \in 1..6 : hist[p].e \in {"add_direct", "add_return"}
    /\ hist[7].e = "rm_direct"
    /\ hist[8].e = "rm_return"
    /\ hist[8].id = IdOf(1)
    /\ Uids(handlers) = <<3, 2>>

\* C17 (quiescent queues in single-threaded use): when one thread drives
\* the dispatcher, callbacks calling back included, added_queue and
\* removed_queue are both empty in every state in which no dispatch that
\* acquired the handlers mutex is in progress.
C17_QuiescentQueues ==
    (Cardinality(world.threads) = 1 /\ Dispatching = {})
    => added_queue = <<>> /\ removed_queue = <<>>

\* The single thread is idle after a dispatch whose callbacks queued a
\* registration and a removal.
C17_Witness ==
    /\ Cardinality(world.threads) = 1
    /\ \A t \in Threads : Depth(t) = 0
    /\ Len(hist) > 0
    /\ hist[Len(hist)].e = "release"
    /\ LET d == hist[Len(hist)].d
       IN  /\ \E p \in AcqAt(d)..Len(hist) : hist[p].e = "add_deferred"
           /\ \E p \in AcqAt(d)..Len(hist) : hist[p].e = "rm_deferred"

\* The positions of a snapshot of the live list whose handler has id x.
SnapHits(snap, x) == {j \in 1..Len(snap) : IdOf(snap[j]) = x}

\* During dispatch d, which found exactly one live handler with the id, the
\* callbacks' calls for that id are the remove_handler observed at pr and
\* then the add_handler observed at pa, and no other.
RemoveThenAddIn(d, pr, pa) ==
    /\ pr < pa
    /\ hist[pr].e = "rm_queued"
    /\ hist[pa].e = "add_queued"
    /\ hist[pr].id = hist[pa].id
    /\ hist[pr].by # 0
    /\ hist[pa].by # 0
    /\ {hist[pr].d, hist[pa].d} = {d}
    /\ \A p \in CallPos(hist[pr].id) : hist[p].d = d => p \in {pr, pa}
    /\ Cardinality(SnapHits(hist[AcqAt(d)].snap, hist[pr].id)) = 1

\* C18 (remove-then-add in the same cycle): when id X is live and, during
\* one dispatch, callbacks call remove_handler(X) and then add_handler with a
\* new handler with id X, then when that dispatch returns the live list
\* holds exactly one handler with id X: the new one.
C18_RemoveThenAdd ==
    \A pr \in Pos : \A pa \in Pos :
        (/\ hist[pr].e = "rm_queued"
         /\ hist[pr].d # 0
         /\ Released(hist[pr].d)
         /\ RemoveThenAddIn(hist[pr].d, pr, pa))
        => LET after == hist[RelAt(hist[pr].d)].snap
               hits == SnapHits(after, hist[pr].id)
           IN  /\ Cardinality(hits) = 1
               /\ \A j \in hits : after[j] = hist[pa].u

\* Handler 1 was replaced by a callback during a dispatch over three
\* handlers, of which handler 1 was not the last, and the dispatch returned.
C18_Witness ==
    \E pr \in Pos : \E pa \in Pos :
        /\ hist[pr].e = "rm_queued"
        /\ hist[pr].d # 0
        /\ Released(hist[pr].d)
        /\ RemoveThenAddIn(hist[pr].d, pr, pa)
        /\ Len(hist[AcqAt(hist[pr].d)].snap) = 3
        /\ IdOf(hist[AcqAt(hist[pr].d)].snap[3]) # hist[pr].id

\* C19 (no stale removal): whenever a handler leaves the live list, some
\* remove_handler call for its id is responsible that was issued after the
\* handler's add_handler, or at least had not yet returned when that
\* add_handler was issued: a remove_handler(X) that has returned never
\* removes a handler with id X registered afterwards.
C19_NoStaleRemoval ==
    [][\A j \in 1..Len(handlers) :
            handlers[j] \notin Range(handlers')
            => \E q \in Pos :
                    /\ IsRemove(hist[q])
                    /\ hist[q].id = handlers[j].id
                    /\ ~RemoveReturnedBefore(q, AddAt(handlers[j].uid))]_vars

====
